---- MODULE Spec2Model ----
(***************************************************************************)
(* Proof-of-work rules of roulettecoin-core: the retargeting functions and *)
(* CheckProofOfWork of src/pow.cpp and the chained hash RouletteHash of    *)
(* src/hash.h.                                                             *)
(*                                                                         *)
(* A 256-bit unsigned integer (arith_uint256) is a sequence of WIDTH bytes,*)
(* least significant byte first, so that all arithmetic keeps its width:   *)
(* a product that does not fit is cut to the low 256 bits.  A compact      *)
(* 32-bit target nBits is the record [size, word]: size is the top byte,   *)
(* word the low three bytes, nBits = size * 2^24 + word.                   *)
(***************************************************************************)
EXTENDS Integers, Sequences, FiniteSets, TLC

\* Bytes of a 256-bit unsigned integer.
WIDTH == 32

Idx == 1..WIDTH

Max(S) == CHOOSE x \in S : \A y \in S : y <= x

\* ------------------------------------------------------------------------
\* arith_uint256: the 256-bit unsigned arithmetic pow.cpp computes with.

\* arith_uint256(n) for a number n < 2^31.
Uint(n) == [i \in Idx |-> IF i <= 4 THEN (n \div (256 ^ (i - 1))) % 256 ELSE 0]

IsZero(a) == \A i \in Idx : a[i] = 0

\* base_uint::CompareTo: -1, 0 or 1, decided by the most significant
\* byte in which a and b differ.
CompareTo(a, b) ==
    LET D == {i \in Idx : a[i] # b[i]}
    IN  IF D = {} THEN 0
        ELSE IF a[Max(D)] < b[Max(D)] THEN -1 ELSE 1

Greater(a, b) == CompareTo(a, b) = 1

RECURSIVE MulStep(_, _, _, _)
MulStep(a, n, i, carry) ==
    IF i > WIDTH THEN << >>
    ELSE LET v == a[i] * n + carry
         IN  << v % 256 >> \o MulStep(a, n, i + 1, v \div 256)

\* a *= n (base_uint::operator*=(uint32_t)): the carry out of the top byte
\* is dropped, the product is taken modulo 2^256.
MulSmall(a, n) == MulStep(a, n, 1, 0)

RECURSIVE DivStep(_, _, _, _)
DivStep(a, n, i, rem) ==
    IF i = 0 THEN << >>
    ELSE LET cur == rem * 256 + a[i]
         IN  << cur \div n >> \o DivStep(a, n, i - 1, cur % n)

\* a /= n (base_uint::operator/=): the quotient, truncated.  DivStep yields
\* the quotient's bytes from the most significant down.
DivSmall(a, n) ==
    LET q == DivStep(a, n, WIDTH, 0) IN [i \in Idx |-> q[WIDTH + 1 - i]]

\* a <<= 8*k and a >>= 8*k.
ShiftLeftBytes(a, k) == [i \in Idx |-> IF i - k >= 1 THEN a[i - k] ELSE 0]

ShiftRightBytes(a, k) == [i \in Idx |-> IF i + k <= WIDTH THEN a[i + k] ELSE 0]

\* a + 1 and a - 1 (wrapping).
Incr(a) == [i \in Idx |-> IF \A j \in 1..(i - 1) : a[j] = 255
                          THEN (a[i] + 1) % 256 ELSE a[i]]

Decr(a) == [i \in Idx |-> IF \A j \in 1..(i - 1) : a[j] = 0
                          THEN (a[i] + 255) % 256 ELSE a[i]]

BitLen(b) == IF b = 0 THEN 0 ELSE Max({k \in 1..8 : b >= 2 ^ (k - 1)})

\* base_uint::bits(): position of the highest set bit, 0 for zero.
Bits(a) ==
    IF IsZero(a) THEN 0
    ELSE LET k == Max({i \in Idx : a[i] # 0}) IN 8 * (k - 1) + BitLen(a[k])

\* The low three bytes, as a number.
Low24(a) == a[1] + 256 * a[2] + 65536 * a[3]

\* ------------------------------------------------------------------------
\* The compact encoding of a target.

Compact(size, word) == [size |-> size, word |-> word]

\* The magnitude bits of the mantissa: nCompact & 0x007fffff.
Mantissa(c) == c.word % 8388608

SignBit(c) == c.word >= 8388608

\* arith_uint256::SetCompact: the decoded target.
SetCompact(c) ==
    IF c.size <= 3
    THEN Uint(Mantissa(c) \div (256 ^ (3 - c.size)))
    ELSE ShiftLeftBytes(Uint(Mantissa(c)), c.size - 3)

\* The fNegative flag of SetCompact.
fNegative(c) == SignBit(c)

\* The fOverflow flag of SetCompact.
fOverflow(c) ==
    /\ Mantissa(c) # 0
    /\ \/ c.size > 34
       \/ Mantissa(c) > 255 /\ c.size > 33
       \/ Mantissa(c) > 65535 /\ c.size > 32

\* arith_uint256::GetCompact of a non-negative value.
GetCompact(a) ==
    LET nSize == (Bits(a) + 7) \div 8
        nWord == IF nSize <= 3
                 THEN Low24(a) * (256 ^ (3 - nSize))
                 ELSE Low24(ShiftRightBytes(a, nSize - 3))
    IN  IF nWord >= 8388608
        THEN Compact(nSize + 1, nWord \div 256)
        ELSE Compact(nSize, nWord)

\* uint256(0) with all bits set, shifted right by n bits: ~uint256(0) >> n.
MaxShr(n) ==
    [i \in Idx |-> IF 8 * i <= 256 - n THEN 255
                   ELSE IF 8 * (i - 1) >= 256 - n THEN 0
                   ELSE 2 ^ (256 - n - 8 * (i - 1)) - 1]

\* UintToArith256: the 32 bytes of a uint256 read least significant first.
UintToArith256(h) == [i \in Idx |-> h[i]]

\* ------------------------------------------------------------------------
\* State.

VARIABLES
    params,    \* Consensus::Params
    chain,     \* the block index: chain[h + 1] is the CBlockIndex of height h
    last,      \* the most recent call and what it returned
    input,     \* RouletteHash: the bytes each call hashes
    pc,        \* RouletteHash: where each call stands
    round,     \* RouletteHash: the loop counter i of each call
    hash,      \* RouletteHash: the 64-byte buffer hash[] of each call
    ctx,       \* the sph contexts, by storage and primitive
    log,       \* per call, the rounds run: digest at the start and primitive
    ret,       \* RouletteHash: the value each call returned
    touched,   \* per call, the context locations it read or wrote
    stale      \* a call read a context not initialized in its current round

powVars == << params, chain, last >>

hashVars == << input, pc, round, hash, ctx, log, ret, touched, stale >>

vars == << params, chain, last, input, pc, round, hash, ctx, log, ret,
           touched, stale >>

\* ------------------------------------------------------------------------
\* Consensus parameters and the block index.

nPowTargetTimespan == 240

nPowTargetSpacing == 60

\* Blocks the index may hold above the genesis block.
MaxHeight == 5

\* params.powLimit candidates: ~uint256(0) >> 20 and ~uint256(0) >> 8.
PowLimits == {MaxShr(20), MaxShr(8)}

ParamSet ==
    [powLimit : PowLimits,
     nPowTargetTimespan : {nPowTargetTimespan},
     nPowTargetSpacing : {nPowTargetSpacing},
     fPowAllowMinDifficultyBlocks : BOOLEAN,
     fPowNoRetargeting : BOOLEAN]

\* Consensus::Params::DifficultyAdjustmentInterval.
DifficultyAdjustmentInterval(p) == p.nPowTargetTimespan \div p.nPowTargetSpacing

\* nBits of a genesis block: the minimum difficulty, or a small target.
GenesisBits(p) == {GetCompact(p.powLimit), GetCompact(Uint(200))}

\* Seconds between a block of the index and the next one.
BlockGaps == {80, 400}

\* Seconds between the tip and a candidate whose work is asked for.
CandidateGaps == {80, 2 * nPowTargetSpacing, 400}

\* Actual timespans handed to CalculateNextWorkRequired.
Timespans ==
    {0 - nPowTargetTimespan, nPowTargetTimespan \div 4,
     nPowTargetTimespan, nPowTargetTimespan + 1,
     nPowTargetTimespan * 4, nPowTargetTimespan * 4 + 1}

Tip == chain[Len(chain)]

\* ------------------------------------------------------------------------
\* pow.cpp

\* The loop without its test for the start of an adjustment interval.
RECURSIVE WalkBack_IgnoresInterval(_, _, _, _)
WalkBack_IgnoresInterval(c, i, p, steps) ==
    IF /\ i > 1
       /\ c[i].nBits = GetCompact(p.powLimit)
    THEN WalkBack_IgnoresInterval(c, i - 1, p, steps + 1)
    ELSE [index |-> i, steps |-> steps]

\* The loop of GetNextWorkRequired that looks for the last block that was
\* not mined under the min-difficulty rule: the index it stops at, and the
\* number of times it stepped to pprev.  chain[1] has no pprev.
RECURSIVE WalkBack(_, _, _, _)
WalkBack(c, i, p, steps) ==
    IF /\ i > 1
       /\ c[i].nHeight % DifficultyAdjustmentInterval(p) # 0
       /\ c[i].nBits = GetCompact(p.powLimit)
    THEN WalkBack(c, i - 1, p, steps + 1)
    ELSE [index |-> i, steps |-> steps]

\* The retarget with the ratio upside down.
Retarget_Inverted(nBits, nActualTimespan, p) ==
    DivSmall(MulSmall(SetCompact(nBits), p.nPowTargetTimespan), nActualTimespan)

\* The retarget that divides before it multiplies.
Retarget_DivideFirst(nBits, nActualTimespan, p) ==
    MulSmall(DivSmall(SetCompact(nBits), p.nPowTargetTimespan), nActualTimespan)

\* bnNew after "bnNew /= params.nPowTargetTimespan", for the clamped timespan.
Retarget(nBits, nActualTimespan, p) ==
    DivSmall(MulSmall(SetCompact(nBits), nActualTimespan), p.nPowTargetTimespan)

\* The limit adjustment step without its lower bound.
LimitTimespan_NoLowerBound(nActualTimespan, p) ==
    IF nActualTimespan > p.nPowTargetTimespan * 4
    THEN p.nPowTargetTimespan * 4 ELSE nActualTimespan

\* The limit adjustment step: nActualTimespan after both bounds.
LimitTimespan(nActualTimespan, p) ==
    LET lo == IF nActualTimespan < p.nPowTargetTimespan \div 4
              THEN p.nPowTargetTimespan \div 4 ELSE nActualTimespan
    IN  IF lo > p.nPowTargetTimespan * 4 THEN p.nPowTargetTimespan * 4 ELSE lo

\* The retarget without the powLimit clamp.
LimitTarget_NoClamp(bnNew, p) == bnNew

\* "if (bnNew > bnPowLimit) bnNew = bnPowLimit".
LimitTarget(bnNew, p) == IF Greater(bnNew, p.powLimit) THEN p.powLimit ELSE bnNew

CalculateNextWorkRequired(pindexLast, nFirstBlockTime, p) ==
    IF p.fPowNoRetargeting THEN pindexLast.nBits
    ELSE LET nActualTimespan == LimitTimespan(pindexLast.nTime - nFirstBlockTime, p)
         IN  GetCompact(LimitTarget(Retarget(pindexLast.nBits, nActualTimespan, p), p))

\* Whether the block after pindexLast starts a new adjustment interval.
IsRetargetHeight(pindexLast, p) ==
    (pindexLast.nHeight + 1) % DifficultyAdjustmentInterval(p) = 0

\* The min-difficulty test with the comparison turned around.
MinDifficultyAllowed_Reversed(pindexLast, blockTime, p) ==
    blockTime < pindexLast.nTime + p.nPowTargetSpacing * 2

\* "pblock->GetBlockTime() > pindexLast->GetBlockTime() + nPowTargetSpacing*2".
MinDifficultyAllowed(pindexLast, blockTime, p) ==
    blockTime > pindexLast.nTime + p.nPowTargetSpacing * 2

\* GetNextWorkRequired for the block after the last block of c: the bits
\* it returns, and the steps its loop took.
GetNextWorkRequiredRun(c, blockTime, p) ==
    LET pindexLast == c[Len(c)]
        nProofOfWorkLimit == GetCompact(p.powLimit)
        NoWalk(nBits) == [nBits |-> nBits, steps |-> 0]
    IN  IF ~IsRetargetHeight(pindexLast, p)
        THEN IF p.fPowAllowMinDifficultyBlocks
             THEN IF MinDifficultyAllowed(pindexLast, blockTime, p)
                  THEN NoWalk(nProofOfWorkLimit)
                  ELSE LET w == WalkBack(c, Len(c), p, 0)
                       IN  [nBits |-> c[w.index].nBits, steps |-> w.steps]
             ELSE NoWalk(pindexLast.nBits)
        ELSE LET nHeightFirst ==
                     pindexLast.nHeight - (DifficultyAdjustmentInterval(p) - 1)
                 pindexFirst == c[nHeightFirst + 1]
             IN  NoWalk(CalculateNextWorkRequired(pindexLast, pindexFirst.nTime, p))

GetNextWorkRequired(c, blockTime, p) == GetNextWorkRequiredRun(c, blockTime, p).nBits

\* The range check without its fNegative test.
TargetOutOfRange_NoNegative(nBits, p) ==
    \/ IsZero(SetCompact(nBits))
    \/ fOverflow(nBits)
    \/ Greater(SetCompact(nBits), p.powLimit)

\* The range check of CheckProofOfWork.
TargetOutOfRange(nBits, p) ==
    \/ fNegative(nBits)
    \/ IsZero(SetCompact(nBits))
    \/ fOverflow(nBits)
    \/ Greater(SetCompact(nBits), p.powLimit)

\* The work check with >= in place of >.
CheckProofOfWork_RejectsEqual(h, nBits, p) ==
    IF TargetOutOfRange(nBits, p) THEN FALSE
    ELSE IF CompareTo(UintToArith256(h), SetCompact(nBits)) >= 0 THEN FALSE
    ELSE TRUE

CheckProofOfWork(h, nBits, p) ==
    IF TargetOutOfRange(nBits, p) THEN FALSE
    ELSE IF Greater(UintToArith256(h), SetCompact(nBits)) THEN FALSE
    ELSE TRUE

\* ------------------------------------------------------------------------
\* Operations on the block index and calls of the pow.cpp functions.

NoCall == [op |-> "none"]

\* The chain index accepts a block on its tip: the block carries the bits
\* GetNextWorkRequired asks for and a hash that meets them.
ConnectBlock(dt) ==
    /\ Len(chain) <= MaxHeight
    /\ LET blockTime == Tip.nTime + dt
           nBits == GetNextWorkRequired(chain, blockTime, params)
       IN  /\ \E h \in {SetCompact(nBits)} : CheckProofOfWork(h, nBits, params)
           /\ chain' = Append(chain, [nHeight |-> Tip.nHeight + 1,
                                      nTime |-> blockTime,
                                      nBits |-> nBits])
    /\ last' = [op |-> "ConnectBlock"]
    /\ UNCHANGED << params, hashVars >>

CallGetNextWorkRequired(dt) ==
    /\ LET run == GetNextWorkRequiredRun(chain, Tip.nTime + dt, params)
       IN  last' = [op |-> "GetNextWorkRequired",
                    blockTime |-> Tip.nTime + dt,
                    steps |-> run.steps,
                    ret |-> run.nBits]
    /\ UNCHANGED << params, chain, hashVars >>

CallCalculateNextWorkRequired(span) ==
    /\ last' = [op |-> "CalculateNextWorkRequired",
                nFirstBlockTime |-> Tip.nTime - span,
                ret |-> CalculateNextWorkRequired(Tip, Tip.nTime - span, params)]
    /\ UNCHANGED << params, chain, hashVars >>

\* nBits of candidate headers: valid targets, targets around powLimit, and
\* encodings that decode to zero, carry the sign bit, or overflow 256 bits.
BitsInputs(p) ==
    {GetCompact(p.powLimit), GetCompact(Incr(p.powLimit)),
     GetCompact(Uint(200)), Compact(3, 1193046),
     Compact(0, 0), Compact(1, 13398), Compact(0, 8388608),
     Compact(4, 9581654), Compact(1, 16702650),
     Compact(255, 1193046), Compact(33, 65536), Compact(34, 256),
     Compact(34, 255), Compact(32, 65535)}

\* Hashes of candidate headers, around the target that nBits decodes to.
HashInputs(nBits, p) ==
    {Uint(0), SetCompact(nBits), Incr(SetCompact(nBits)),
     Decr(SetCompact(nBits)), p.powLimit, MaxShr(0)}

CallCheckProofOfWork(h, nBits) ==
    /\ last' = [op |-> "CheckProofOfWork", hash |-> h, nBits |-> nBits,
                ret |-> CheckProofOfWork(h, nBits, params)]
    /\ UNCHANGED << params, chain, hashVars >>

HashIdle ==
    /\ input = << >>
    /\ pc = << >>
    /\ round = << >>
    /\ hash = << >>
    /\ ctx = << >>
    /\ log = << >>
    /\ ret = << >>
    /\ touched = << >>
    /\ stale = FALSE

Init ==
    /\ params \in ParamSet
    /\ \E b \in GenesisBits(params) :
           chain = << [nHeight |-> 0, nTime |-> 0, nBits |-> b] >>
    /\ last = NoCall
    /\ HashIdle

Next ==
    \/ \E dt \in BlockGaps : ConnectBlock(dt)
    \/ \E dt \in CandidateGaps : CallGetNextWorkRequired(dt)
    \/ \E span \in Timespans : CallCalculateNextWorkRequired(span)

Spec == Init /\ [][Next]_vars

\* CheckProofOfWork on candidate headers, whose bits and hash are not trusted.
NextCheck ==
    \E nBits \in BitsInputs(params) :
        \E h \in HashInputs(nBits, params) : CallCheckProofOfWork(h, nBits)

SpecCheck == Init /\ [][NextCheck]_vars

\* ------------------------------------------------------------------------
\* hash.h: RouletteHash.

\* The concurrent calls of RouletteHash.
Calls == {1, 2}

\* Where contexts are stored: the static storage of the globals z_blake,
\* ... and the automatic storage of each call.
Static == 0

Storage == {Static} \cup Calls

\* Bytes of hash[] and of the uint256 returned.
HashBytes == 64

ResultBytes == 32

Rounds == 16

Primitives ==
    {"blake512", "bmw512", "cubehash512", "echo512", "fugue512",
     "groestl512", "hamsi512", "jh512", "keccak512", "luffa512", "sha512",
     "shabal512", "shavite512", "simd512", "skein512", "whirlpool"}

\* The primitives that have a global context.
GlobalContexts ==
    {"blake512", "bmw512", "groestl512", "jh512", "keccak512", "skein512",
     "luffa512", "cubehash512", "shavite512", "simd512", "echo512"}

\* The inputs hashed: the empty input and "BTC".
Inputs == {<< >>, << 66, 84, 67 >>}

\* The sph primitives are fixed functions from the bytes absorbed to 64
\* bytes.  Each is told apart by a number of its own.
Seed(alg) ==
    CASE alg = "blake512" -> 11 [] alg = "bmw512" -> 23
      [] alg = "cubehash512" -> 37 [] alg = "echo512" -> 41
      [] alg = "fugue512" -> 53 [] alg = "groestl512" -> 67
      [] alg = "hamsi512" -> 71 [] alg = "jh512" -> 83
      [] alg = "keccak512" -> 97 [] alg = "luffa512" -> 101
      [] alg = "sha512" -> 113 [] alg = "shabal512" -> 127
      [] alg = "shavite512" -> 131 [] alg = "simd512" -> 149
      [] alg = "skein512" -> 151 [] alg = "whirlpool" -> 163

\* The bytes lo..hi of data, each weighted by its position, mixed into one
\* number.
RECURSIVE Mixed(_, _, _)
Mixed(data, lo, hi) ==
    IF lo > hi THEN 0
    ELSE IF lo = hi THEN ((data[lo] + 1) * (lo * lo + 7)) % 65521
    ELSE (Mixed(data, lo, (lo + hi) \div 2)
            + Mixed(data, (lo + hi) \div 2 + 1, hi)) % 65521

\* sph_<alg>_close: the 64 bytes the primitive gives for the data absorbed.
Digest(alg, data) ==
    LET f == (Mixed(data, 1, Len(data)) + 257 * Seed(alg)) % 65521
    IN  [i \in 1..HashBytes |-> ((f + 1) * (i + Seed(alg)) + f \div 256) % 256]

\* A context: by is the call and round that initialized it.
Uninitialized == [st |-> "uninitialized", data |-> << >>, by |-> << 0, 0 >>]

\* sph_<alg>_init.
InitContext(p, i) == [st |-> "initialized", data |-> << >>, by |-> << p, i >>]

\* sph_<alg>: the context absorbs data.
Absorb(c, data) == [c EXCEPT !.st = "absorbed", !.data = c.data \o data]

\* The storage RouletteHash uses for its contexts when it is the static one.
CtxStorage_Static(p) == Static

\* The storage call p uses for its contexts: ctx_blake, ... are locals.
CtxStorage(p) == p

\* "hash[0] & 0xf" taken from the high nibble.
Selector_HighNibble(h) == h[1] \div 16

\* unsigned hdec = hash[0] & 0xf.
Selector(h) == h[1] % 16

\* The switch with cases 3 and 4 exchanged.
AlgOfCase_Exchanged(hdec) ==
    CASE hdec = 0 -> "blake512" [] hdec = 1 -> "bmw512"
      [] hdec = 2 -> "cubehash512" [] hdec = 3 -> "fugue512"
      [] hdec = 4 -> "echo512" [] hdec = 5 -> "groestl512"
      [] hdec = 6 -> "hamsi512" [] hdec = 7 -> "jh512"
      [] hdec = 8 -> "keccak512" [] hdec = 9 -> "luffa512"
      [] hdec = 10 -> "sha512" [] hdec = 11 -> "shabal512"
      [] hdec = 12 -> "shavite512" [] hdec = 13 -> "simd512"
      [] hdec = 14 -> "skein512" [] hdec = 15 -> "whirlpool"

\* switch(hdec): the primitive each case runs.
AlgOfCase(hdec) ==
    CASE hdec = 0 -> "blake512" [] hdec = 1 -> "bmw512"
      [] hdec = 2 -> "cubehash512" [] hdec = 3 -> "echo512"
      [] hdec = 4 -> "fugue512" [] hdec = 5 -> "groestl512"
      [] hdec = 6 -> "hamsi512" [] hdec = 7 -> "jh512"
      [] hdec = 8 -> "keccak512" [] hdec = 9 -> "luffa512"
      [] hdec = 10 -> "sha512" [] hdec = 11 -> "shabal512"
      [] hdec = 12 -> "shavite512" [] hdec = 13 -> "simd512"
      [] hdec = 14 -> "skein512" [] hdec = 15 -> "whirlpool"

\* The context call p works on, and whether it is the one p initialized in
\* its current round.
Context(p, alg) == ctx[CtxStorage(p)][alg]

Fresh(p, alg, st) ==
    /\ Context(p, alg).st = st
    /\ Context(p, alg).by = << p, round[p] >>

Touch(p, alg) ==
    touched' = [touched EXCEPT ![p] = @ \cup {<< CtxStorage(p), alg >>}]

\* The primitive of the round call p is in.
CurrentAlg(p) == log[p][Len(log[p])].alg

\* sph_sha512_init(&ctx_sha).
Sha512Init(p) ==
    /\ pc[p] = "sha512_init"
    /\ ctx' = [ctx EXCEPT ![CtxStorage(p)]["sha512"] = InitContext(p, round[p])]
    /\ Touch(p, "sha512")
    /\ pc' = [pc EXCEPT ![p] = "sha512"]
    /\ UNCHANGED << powVars, input, round, hash, log, ret, stale >>

\* sph_sha512(&ctx_sha, pbegin, len).
Sha512Update(p) ==
    /\ pc[p] = "sha512"
    /\ ctx' = [ctx EXCEPT ![CtxStorage(p)]["sha512"] = Absorb(@, input[p])]
    /\ stale' = (stale \/ ~Fresh(p, "sha512", "initialized"))
    /\ Touch(p, "sha512")
    /\ pc' = [pc EXCEPT ![p] = "sha512_close"]
    /\ UNCHANGED << powVars, input, round, hash, log, ret >>

\* sph_sha512_close(&ctx_sha, hash).
Sha512Close(p) ==
    /\ pc[p] = "sha512_close"
    /\ hash' = [hash EXCEPT ![p] = Digest("sha512", Context(p, "sha512").data)]
    /\ ctx' = [ctx EXCEPT ![CtxStorage(p)]["sha512"].st = "closed"]
    /\ stale' = (stale \/ ~Fresh(p, "sha512", "absorbed"))
    /\ Touch(p, "sha512")
    /\ pc' = [pc EXCEPT ![p] = "switch"]
    /\ UNCHANGED << powVars, input, round, log, ret >>

\* The loop test, the switch on hdec and sph_<alg>_init of the case taken.
RoundInit(p) ==
    /\ pc[p] = "switch"
    /\ round[p] < Rounds
    /\ LET alg == AlgOfCase(Selector(hash[p]))
       IN  /\ log' = [log EXCEPT ![p] = Append(@, [digest |-> hash[p], alg |-> alg])]
           /\ ctx' = [ctx EXCEPT ![CtxStorage(p)][alg] = InitContext(p, round[p])]
           /\ Touch(p, alg)
    /\ pc' = [pc EXCEPT ![p] = "update"]
    /\ UNCHANGED << powVars, input, round, hash, ret, stale >>

\* sph_<alg>(&ctx, hash, 64).
RoundUpdate(p) ==
    /\ pc[p] = "update"
    /\ ctx' = [ctx EXCEPT ![CtxStorage(p)][CurrentAlg(p)] = Absorb(@, hash[p])]
    /\ stale' = (stale \/ ~Fresh(p, CurrentAlg(p), "initialized"))
    /\ Touch(p, CurrentAlg(p))
    /\ pc' = [pc EXCEPT ![p] = "close"]
    /\ UNCHANGED << powVars, input, round, hash, log, ret >>

\* sph_<alg>_close(&ctx, hash), and i++.
RoundClose(p) ==
    /\ pc[p] = "close"
    /\ hash' = [hash EXCEPT ![p] = Digest(CurrentAlg(p), Context(p, CurrentAlg(p)).data)]
    /\ ctx' = [ctx EXCEPT ![CtxStorage(p)][CurrentAlg(p)].st = "closed"]
    /\ stale' = (stale \/ ~Fresh(p, CurrentAlg(p), "absorbed"))
    /\ Touch(p, CurrentAlg(p))
    /\ round' = [round EXCEPT ![p] = @ + 1]
    /\ pc' = [pc EXCEPT ![p] = "switch"]
    /\ UNCHANGED << powVars, input, log, ret >>

\* return uint256(std::vector<unsigned char>(hash, hash + 32)).
Return(p) ==
    /\ pc[p] = "switch"
    /\ round[p] >= Rounds
    /\ ret' = [ret EXCEPT ![p] = SubSeq(hash[p], 1, ResultBytes)]
    /\ pc' = [pc EXCEPT ![p] = "done"]
    /\ UNCHANGED << powVars, input, round, hash, ctx, log, touched, stale >>

\* fillz(): initializes the global contexts.
Fillz ==
    /\ ctx' = [ctx EXCEPT ![Static] =
                  [alg \in Primitives |->
                      IF alg \in GlobalContexts
                      THEN InitContext(Static, 0) ELSE ctx[Static][alg]]]
    /\ UNCHANGED << powVars, input, pc, round, hash, log, ret, touched, stale >>

InitHash ==
    /\ params = CHOOSE p \in ParamSet : TRUE
    /\ chain = << [nHeight |-> 0, nTime |-> 0,
                   nBits |-> GetCompact(params.powLimit)] >>
    /\ last = NoCall
    /\ input \in [Calls -> Inputs]
    /\ pc = [p \in Calls |-> "sha512_init"]
    /\ round = [p \in Calls |-> 0]
    /\ hash = [p \in Calls |-> << >>]
    /\ ctx = [s \in Storage |-> [alg \in Primitives |-> Uninitialized]]
    /\ log = [p \in Calls |-> << >>]
    /\ ret = [p \in Calls |-> << >>]
    /\ touched = [p \in Calls |-> {}]
    /\ stale = FALSE

NextHash ==
    \/ \E p \in Calls : Sha512Init(p)
    \/ \E p \in Calls : Sha512Update(p)
    \/ \E p \in Calls : Sha512Close(p)
    \/ \E p \in Calls : RoundInit(p)
    \/ \E p \in Calls : RoundUpdate(p)
    \/ \E p \in Calls : RoundClose(p)
    \/ \E p \in Calls : Return(p)
    \/ Fillz

SpecHash == InitHash /\ [][NextHash]_vars

\* ------------------------------------------------------------------------
\* Properties of CheckProofOfWork.

\* a <= b and a < b as unsigned 256-bit integers: wherever a has the larger
\* byte, a more significant byte of a is the smaller one.
ULe(a, b) ==
    \A i \in Idx : a[i] > b[i] => \E j \in (i + 1)..WIDTH : a[j] < b[j]

ULt(a, b) == ULe(a, b) /\ a # b

\* The decoded target of nBits is negative, overflows, is zero or exceeds
\* powLimit.
InvalidTarget(nBits, p) ==
    \/ fNegative(nBits)
    \/ fOverflow(nBits)
    \/ SetCompact(nBits) = Uint(0)
    \/ ULt(p.powLimit, SetCompact(nBits))

Checked == last.op = "CheckProofOfWork"

\* C1: CheckProofOfWork fails, whatever the hash, when the target decoded
\* from nBits is negative, overflows, is zero or is above powLimit.
C1_InvalidTargetFails ==
    (Checked /\ InvalidTarget(last.nBits, params)) => last.ret = FALSE

\* An invalid target rejected although the hash does not exceed it.
C1_Witness ==
    /\ Checked
    /\ InvalidTarget(last.nBits, params)
    /\ ULe(last.hash, SetCompact(last.nBits))
    /\ last.ret = FALSE

\* C2: for a valid target, CheckProofOfWork succeeds exactly when
\* hash <= target: it succeeds for hash = target, fails for hash = target+1.
C2_AcceptsIffHashAtMostTarget ==
    (Checked /\ ~InvalidTarget(last.nBits, params)) =>
        /\ last.ret = ULe(last.hash, SetCompact(last.nBits))
        /\ last.hash = SetCompact(last.nBits) => last.ret = TRUE
        /\ last.hash = Incr(SetCompact(last.nBits)) => last.ret = FALSE

\* A valid target and a hash exactly equal to it, accepted.
C2_Witness ==
    /\ Checked
    /\ ~InvalidTarget(last.nBits, params)
    /\ last.hash = SetCompact(last.nBits)
    /\ last.ret = TRUE

\* A valid target and hash = target + 1, rejected.
C2_WitnessAbove ==
    /\ Checked
    /\ ~InvalidTarget(last.nBits, params)
    /\ last.hash = Incr(SetCompact(last.nBits))
    /\ last.ret = FALSE

\* ------------------------------------------------------------------------
\* Properties of CalculateNextWorkRequired.

Calculated == last.op = "CalculateNextWorkRequired"

\* The actual timespan of the last call: lastHeader.timestamp - firstBlockTime.
ActualSpan == Tip.nTime - last.nFirstBlockTime

\* newTarget of the call for the actual timespan a, before the powLimit clamp.
NewTarget(a) == Retarget(Tip.nBits, LimitTimespan(a, params), params)

InBounds(a) ==
    /\ params.nPowTargetTimespan \div 4 <= a
    /\ a <= params.nPowTargetTimespan * 4

\* The carry that a *= n drops: non-zero exactly when the product wraps.
RECURSIVE MulCarry(_, _, _, _)
MulCarry(a, n, i, carry) ==
    IF i > WIDTH THEN carry
    ELSE MulCarry(a, n, i + 1, (a[i] * n + carry) \div 256)

\* The product target * a fits 256 bits.
NoWrap(a) == MulCarry(SetCompact(Tip.nBits), a, 1, 0) = 0

\* C3: the bits CalculateNextWorkRequired returns decode to a target that
\* does not exceed powLimit.
C3_ResultAtMostPowLimit ==
    Calculated => ULe(SetCompact(last.ret), params.powLimit)

\* A retarget whose new target was above powLimit and came back as powLimit.
C3_Witness ==
    /\ Calculated
    /\ ~params.fPowNoRetargeting
    /\ ULt(params.powLimit, NewTarget(ActualSpan))
    /\ last.ret = GetCompact(params.powLimit)

\* C6: with retargeting on, a timespan below targetTimespan/4 gives the bits
\* of targetTimespan/4, a timespan above targetTimespan*4 those of
\* targetTimespan*4.
C6_ClampedSpansAgreeWithBoundary ==
    (Calculated /\ ~params.fPowNoRetargeting) =>
        /\ ActualSpan < params.nPowTargetTimespan \div 4 =>
               last.ret = CalculateNextWorkRequired(
                   Tip, Tip.nTime - params.nPowTargetTimespan \div 4, params)
        /\ ActualSpan > params.nPowTargetTimespan * 4 =>
               last.ret = CalculateNextWorkRequired(
                   Tip, Tip.nTime - params.nPowTargetTimespan * 4, params)

\* A negative timespan, retargeted like targetTimespan/4 to harder bits.
C6_Witness ==
    /\ Calculated
    /\ ~params.fPowNoRetargeting
    /\ ActualSpan < 0
    /\ last.ret # Tip.nBits
    /\ last.ret = GetCompact(LimitTarget(
           NewTarget(params.nPowTargetTimespan \div 4), params))

\* A timespan above targetTimespan*4, retargeted like targetTimespan*4.
C6_WitnessAbove ==
    /\ Calculated
    /\ ~params.fPowNoRetargeting
    /\ ActualSpan > params.nPowTargetTimespan * 4
    /\ last.ret # Tip.nBits

\* C7 as claimed: newTarget is monotone in the timespan inside the clamp
\* bounds, and two timespans give equal targets only at a clamp boundary.
C7_StrictlyMonotone ==
    (Calculated /\ ~params.fPowNoRetargeting /\ InBounds(ActualSpan)) =>
        \A a1 \in Timespans :
            (InBounds(a1) /\ a1 < ActualSpan) =>
                /\ ULe(NewTarget(a1), NewTarget(ActualSpan))
                /\ NewTarget(a1) = NewTarget(ActualSpan) =>
                       \/ a1 = params.nPowTargetTimespan \div 4
                       \/ ActualSpan = params.nPowTargetTimespan * 4

\* C7 (amended): while target * timespan fits 256 bits, newTarget does not
\* decrease when the timespan grows inside the clamp bounds, and it grows
\* strictly when the target is at least targetTimespan.
C7_MonotoneWithoutWrap ==
    (Calculated /\ ~params.fPowNoRetargeting /\ InBounds(ActualSpan)
       /\ NoWrap(ActualSpan)) =>
        \A a1 \in Timespans :
            (InBounds(a1) /\ a1 < ActualSpan) =>
                /\ ULe(NewTarget(a1), NewTarget(ActualSpan))
                /\ ULe(Uint(params.nPowTargetTimespan), SetCompact(Tip.nBits)) =>
                       ULt(NewTarget(a1), NewTarget(ActualSpan))

\* Two timespans strictly inside the bounds with strictly ordered targets.
C7_Witness ==
    /\ Calculated
    /\ ~params.fPowNoRetargeting
    /\ ActualSpan = params.nPowTargetTimespan + 1
    /\ NoWrap(ActualSpan)
    /\ ULt(NewTarget(params.nPowTargetTimespan), NewTarget(ActualSpan))

\* Two timespans strictly inside the bounds with the same target.
C7_WitnessEqual ==
    /\ Calculated
    /\ ~params.fPowNoRetargeting
    /\ ActualSpan = params.nPowTargetTimespan + 1
    /\ NoWrap(ActualSpan)
    /\ NewTarget(params.nPowTargetTimespan) = NewTarget(ActualSpan)

\* A product that wraps: the larger timespan gives the smaller target.
C7_WitnessWrap ==
    /\ Calculated
    /\ ~params.fPowNoRetargeting
    /\ InBounds(ActualSpan)
    /\ ~NoWrap(ActualSpan)
    /\ ULt(NewTarget(ActualSpan), NewTarget(params.nPowTargetTimespan))

\* ------------------------------------------------------------------------
\* Properties of GetNextWorkRequired.

Asked == last.op = "GetNextWorkRequired"

interval == DifficultyAdjustmentInterval(params)

AtBoundary == (Tip.nHeight + 1) % interval = 0

\* The candidate's timestamp is more than 2*targetSpacing after the tip's.
LongGap == last.blockTime > Tip.nTime + 2 * params.nPowTargetSpacing

\* The ancestor at height lastHeader.height - (interval - 1).
FirstOfWindow == chain[Tip.nHeight - (interval - 1) + 1]

\* C4 as claimed: with allowMinDifficultyBlocks, a candidate more than
\* 2*targetSpacing after the tip gets Encode(powLimit) at every height.
C4_LongGapGivesPowLimit ==
    (Asked /\ params.fPowAllowMinDifficultyBlocks /\ LongGap) =>
        last.ret = GetCompact(params.powLimit)

\* C4 (amended): the same, for a candidate that is not at a retarget
\* boundary.
C4_LongGapOffBoundaryGivesPowLimit ==
    (Asked /\ params.fPowAllowMinDifficultyBlocks /\ LongGap /\ ~AtBoundary) =>
        last.ret = GetCompact(params.powLimit)

\* A tip above the genesis block with harder bits, and a late candidate that
\* gets the minimum difficulty.
C4_Witness ==
    /\ Asked
    /\ params.fPowAllowMinDifficultyBlocks
    /\ LongGap
    /\ ~AtBoundary
    /\ Tip.nHeight > 0
    /\ Tip.nBits # GetCompact(params.powLimit)
    /\ last.ret = GetCompact(params.powLimit)

\* A late candidate at a retarget boundary that gets a retargeted value.
C4_WitnessBoundary ==
    /\ Asked
    /\ params.fPowAllowMinDifficultyBlocks
    /\ LongGap
    /\ AtBoundary
    /\ last.ret # GetCompact(params.powLimit)

\* C5: at a retarget boundary, a window that took exactly targetTimespan
\* leaves the bits of the tip unchanged.
C5_ExactTimespanKeepsBits ==
    (Asked /\ AtBoundary
       /\ Tip.nTime - FirstOfWindow.nTime = params.nPowTargetTimespan) =>
        last.ret = Tip.nBits

\* Such a window, with retargeting on.
C5_Witness ==
    /\ Asked
    /\ AtBoundary
    /\ ~params.fPowNoRetargeting
    /\ Tip.nTime - FirstOfWindow.nTime = params.nPowTargetTimespan
    /\ last.ret = Tip.nBits

\* Where the walk back from the tip stops: at a header whose height is a
\* multiple of the interval, whose bits are not Encode(powLimit), or which
\* has no previous header.
StopsWalk(i) ==
    \/ chain[i].nHeight % interval = 0
    \/ chain[i].nBits # GetCompact(params.powLimit)
    \/ i = 1

\* The first such header on the path back from the tip, the tip included.
FirstStop == Max({i \in 1..Len(chain) : StopsWalk(i)})

\* The call took the walk: off the boundary, min-difficulty blocks allowed,
\* the candidate not late.
Walked ==
    /\ Asked
    /\ ~AtBoundary
    /\ params.fPowAllowMinDifficultyBlocks
    /\ ~LongGap

\* C9: the walk returns the bits of the first header that stops it and
\* takes at most lastHeader.height steps.
C9_WalkResult ==
    Walked =>
        /\ last.ret = chain[FirstStop].nBits
        /\ last.steps = Len(chain) - FirstStop
        /\ last.steps <= Tip.nHeight

\* C9: a call of GetNextWorkRequired changes no header.
C9_IndexUnchanged ==
    (last'.op = "GetNextWorkRequired" /\ last' # last) => chain' = chain

\* C9: the walk back through the previous-links.
C9_WalkBack == []C9_WalkResult /\ [][C9_IndexUnchanged]_vars

\* A walk that stepped over min-difficulty headers and stopped at a header
\* with other bits, above the genesis block and not a multiple of interval.
C9_Witness ==
    /\ Walked
    /\ last.steps > 0
    /\ FirstStop > 1
    /\ chain[FirstStop].nHeight % interval # 0
    /\ last.ret # GetCompact(params.powLimit)

\* A walk that stopped above the genesis block, at a multiple of the
\* interval with min-difficulty bits.
C9_WitnessBoundary ==
    /\ Walked
    /\ last.steps > 0
    /\ FirstStop > 1
    /\ chain[FirstStop].nHeight % interval = 0
    /\ last.ret = GetCompact(params.powLimit)

\* ------------------------------------------------------------------------
\* Properties of RouletteHash.

\* The primitive of each table index, index 0 first.
Table ==
    << "blake512", "bmw512", "cubehash512", "echo512", "fugue512",
       "groestl512", "hamsi512", "jh512", "keccak512", "luffa512", "sha512",
       "shabal512", "shavite512", "simd512", "skein512", "whirlpool" >>

LowNibble(b) == b - 16 * (b \div 16)

Done(p) == pc[p] = "done"

\* The digest a logged round leaves behind.
After(r) == Digest(r.alg, r.digest)

\* C8: SHA-512 of the input, then exactly 16 rounds, each running on the
\* whole digest the primitive whose table index is the low nibble of the
\* digest's first byte; the result is the first 32 bytes of the last digest,
\* and equal inputs give equal results.
C8_SixteenSelectedRounds ==
    /\ \A p \in Calls :
        /\ Len(log[p]) <= 16
        /\ Len(log[p]) >= 1 => log[p][1].digest = Digest("sha512", input[p])
        /\ \A k \in 1..Len(log[p]) :
               /\ Len(log[p][k].digest) = 64
               /\ log[p][k].alg = Table[LowNibble(log[p][k].digest[1]) + 1]
               /\ k > 1 => log[p][k].digest = After(log[p][k - 1])
        /\ Done(p) =>
               /\ Len(log[p]) = 16
               /\ Len(ret[p]) = 32
               /\ \A i \in 1..32 : ret[p][i] = After(log[p][16])[i]
    /\ \A p, q \in Calls :
           (Done(p) /\ Done(q) /\ input[p] = input[q]) => ret[p] = ret[q]

\* Two finished calls on the same input, with the same result.
C8_Witness ==
    /\ Done(1)
    /\ Done(2)
    /\ input[1] = input[2]
    /\ Len(log[1]) = 16
    /\ ret[1] = ret[2]
    /\ \E j, k \in 1..16 : log[1][j].alg # log[1][k].alg

\* The rounds of a call that runs alone, and what it returns.
RECURSIVE RunRounds(_, _)
RunRounds(d, k) ==
    IF k = 0 THEN d
    ELSE RunRounds(Digest(AlgOfCase(Selector(d)), d), k - 1)

Alone(in) == SubSeq(RunRounds(Digest("sha512", in), Rounds), 1, ResultBytes)

\* C10: every context a call reads was initialized by that call in its
\* current round; a call touches only contexts of its own storage, so two
\* calls touch no common context; and each call returns what it returns
\* when it runs alone.
C10_IsolatedFreshContexts ==
    /\ ~stale
    /\ \A p \in Calls : \A t \in touched[p] : t[1] = p
    /\ \A p, q \in Calls : p # q => touched[p] \cap touched[q] = {}
    /\ \A p \in Calls : Done(p) => ret[p] = Alone(input[p])

\* Two calls on different inputs inside the same primitive at the same time.
C10_WitnessInterleaved ==
    /\ input[1] # input[2]
    /\ pc[1] = "close"
    /\ pc[2] = "close"
    /\ CurrentAlg(1) = CurrentAlg(2)
    /\ Context(1, CurrentAlg(1)).data # Context(2, CurrentAlg(2)).data

\* Two finished calls on different inputs that ran a common primitive, one of
\* them the same primitive in two of its rounds.
C10_Witness ==
    /\ Done(1)
    /\ Done(2)
    /\ input[1] # input[2]
    /\ ret[1] # ret[2]
    /\ \E j, k \in 1..16 : log[1][j].alg = log[2][k].alg
    /\ \E j, k \in 1..16 : j < k /\ log[1][j].alg = log[1][k].alg
====
